---- MODULE Spec2Model ----
(***************************************************************************)
(* Control execution engine of steampipe: the ResultGroup tree             *)
(* (control/controlexecute/result_group.go), its construction from a tree  *)
(* of mod tree items, the tree walk ResultGroup.execute that dispatches    *)
(* control runs under the parallelism semaphore, and the four upward       *)
(* aggregation operations updateSummary, updateSeverityCounts, addDuration *)
(* and addDimensionKeys with their per-group updateLock.                   *)
(***************************************************************************)
EXTENDS Integers, Sequences, FiniteSets, TLC

\* ------------------------------------------------------------------------
\* Bounds of the model
\* ------------------------------------------------------------------------
\* number of mod tree items (benchmarks and controls) in the source tree
MaxItems == 3
\* capacity of the parallelism semaphore (the "max parallel" setting)
MaxParallel == 2

\* ------------------------------------------------------------------------
\* Values
\* ------------------------------------------------------------------------
\* a resource name is [mod, type, short]; an unqualified name has mod ""
RootResultGroupName == [mod |-> "", type |-> "root_result_group", short |-> 0]
\* group id of the root, and the nil values of Parent and GroupItem
Root == 0
NoGroup == -1
NoItem == 0
\* the owner of a free mutex
Free == 0

ItemIds == 1..MaxItems

\* strings that are sorted by the program, in Go's (bytewise) string order
StrOrder == <<"account_id", "env", "owner", "region", "service">>
RECURSIVE StrIndex(_, _)
StrIndex(s, k) == IF StrOrder[k] = s THEN k ELSE StrIndex(s, k + 1)
\* s < t on strings
StrLess(s, t) == StrIndex(s, 1) < StrIndex(t, 1)

\* controlstatus.StatusSummary
ZeroSummary == [Ok |-> 0, Alarm |-> 0, Info |-> 0, Skip |-> 0, Error |-> 0]

\* the empty map[string]StatusSummary
EmptyMap == [s \in {} |-> ZeroSummary]

\* ------------------------------------------------------------------------
\* The source tree of mod tree items (input of the build)
\* ------------------------------------------------------------------------
\* a source tree: items 1..n, item i of kind kind[i] is a child of parent[i]
\* (0: a root item); children keep the order of their ids
SourceTrees ==
  UNION { { [n |-> n, kind |-> k, parent |-> p] :
              k \in [1..n -> {"benchmark", "control"}],
              p \in { q \in [1..n -> 0..(n - 1)] :
                        \A i \in 1..n : q[i] < i } } : n \in 1..MaxItems }

WellFormed(t) ==
  \A i \in 1..t.n : t.parent[i] # 0 => t.kind[t.parent[i]] = "benchmark"

RECURSIVE SortedSeq(_)
\* the elements of a set of integers in ascending order
SortedSeq(S) ==
  IF S = {} THEN << >>
  ELSE LET m == CHOOSE x \in S : \A y \in S : x <= y
       IN <<m>> \o SortedSeq(S \ {m})

\* ModTreeItem.GetChildren (0: the root items handed to NewRootResultGroup)
GetChildren(t, i) == SortedSeq({ j \in 1..t.n : t.parent[j] = i })

\* the mod that defines an item, and the workspace mod
WorkspaceMod == "local"
GetMod(i) == IF i % 2 = 1 THEN "local" ELSE "aws"
\* ModTreeItem.Name: the fully qualified name mod.type.short
Name(t, i) == [mod |-> GetMod(i), type |-> t.kind[i], short |-> i]
\* modconfig.UnqualifiedResourceName drops the mod
UnqualifiedResourceName(name) == [name EXCEPT !.mod = ""]
\* Control.Severity ("" when the control declares none)
SeverityOf(i) == IF i % 4 \in {1, 2} THEN "high" ELSE IF i % 4 = 3 THEN "" ELSE "critical"
\* the keys of an item's tags
TagKeys(i) == IF i % 3 = 1 THEN {"service", "env"} ELSE IF i % 3 = 2 THEN {"owner", "env"} ELSE {}
GetTags(i) == [k \in TagKeys(i) |-> i]

\* ------------------------------------------------------------------------
\* Construction of the tree
\* ------------------------------------------------------------------------
\* The build state st = [groups, runs]: the ResultGroups created so far, by
\* id (Root, or the id of the benchmark), and the ControlRuns, by control id.

RECURSIVE ControlRunCount(_, _)
RECURSIVE SumCounts(_, _)
\* faulty variant of ControlRunCount: the runs of the child groups are left out
ControlRunCountDirect(gs, g) == Len(gs[g].ControlRuns)

\* ResultGroup.ControlRunCount
ControlRunCount(gs, g) == Len(gs[g].ControlRuns) + SumCounts(gs, gs[g].Groups)
SumCounts(gs, children) ==
  IF children = << >> THEN 0
  ELSE ControlRunCount(gs, Head(children)) + SumCounts(gs, Tail(children))

\* ControlRun as created by ExecutionTree.AddControl
NewControlRun(control, group) ==
  [ Control       |-> control,
    Severity      |-> SeverityOf(control),
    group         |-> group,
    RunStatus     |-> "ready",
    Summary       |-> ZeroSummary,
    Duration      |-> 0,
    runError      |-> "",
    DimensionKeys |-> << >> ]

\* ExecutionTree.AddControl: create the run and attach it to the group
AddControl(control, group, st) ==
  [ groups |-> [st.groups EXCEPT ![group].ControlRuns = Append(@, control)],
    runs   |-> (control :> NewControlRun(control, group)) @@ st.runs ]

\* faulty variant of NewGroupRecord: the Parent is the root, not the parent
NewGroupRecordBelowRoot(t, treeItem, parent) ==
  [ GroupId       |-> Name(t, treeItem),
    Tags          |-> GetTags(treeItem),
    GroupItem     |-> treeItem,
    Parent        |-> Root,
    Groups        |-> << >>,
    ControlRuns   |-> << >>,
    Summary       |-> [Status |-> ZeroSummary, Severity |-> EmptyMap],
    Severity      |-> EmptyMap,
    Duration      |-> 0,
    DimensionKeys |-> << >> ]

\* the ResultGroup literal of NewResultGroup
NewGroupRecord(t, treeItem, parent) ==
  LET \* lines 84-89: the name, unqualified for an item of the workspace mod
      groupId == IF GetMod(treeItem) = WorkspaceMod
                 THEN UnqualifiedResourceName(Name(t, treeItem))
                 ELSE Name(t, treeItem)
  IN
  [ GroupId       |-> Name(t, treeItem),
    Tags          |-> GetTags(treeItem),
    GroupItem     |-> treeItem,
    Parent        |-> parent,
    Groups        |-> << >>,
    ControlRuns   |-> << >>,
    Summary       |-> [Status |-> ZeroSummary, Severity |-> EmptyMap],
    Severity      |-> EmptyMap,
    Duration      |-> 0,
    DimensionKeys |-> << >> ]

\* the root ResultGroup literal of NewRootResultGroup
RootGroupRecord ==
  [ GroupId       |-> RootResultGroupName,
    Tags          |-> [k \in {} |-> 0],
    GroupItem     |-> NoItem,
    Parent        |-> NoGroup,
    Groups        |-> << >>,
    ControlRuns   |-> << >>,
    Summary       |-> [Status |-> ZeroSummary, Severity |-> EmptyMap],
    Severity      |-> EmptyMap,
    Duration      |-> 0,
    DimensionKeys |-> << >> ]

\* faulty variant of AttachIfNotEmpty: the test of line 109 is missing
AttachAlways(group, benchmark, st) ==
  [st EXCEPT !.groups[group].Groups = Append(@, benchmark)]

\* NewResultGroup, lines 108-112: attach the built child if it has control runs
AttachIfNotEmpty(group, benchmark, st) ==
  IF ControlRunCount(st.groups, benchmark) > 0
  THEN [st EXCEPT !.groups[group].Groups = Append(@, benchmark)]
  ELSE st

\* NewRootResultGroup, line 75: attach the built group of a root item
AttachToRoot(root, item, st) ==
  [st EXCEPT !.groups[root].Groups = Append(@, item)]

RECURSIVE NewResultGroup(_, _, _, _)
RECURSIVE AddChildren(_, _, _, _)
\* NewResultGroup: the group of treeItem and, below it, of its children
NewResultGroup(t, treeItem, parent, st) ==
  AddChildren(t, treeItem, GetChildren(t, treeItem),
              [st EXCEPT !.groups = (treeItem :> NewGroupRecord(t, treeItem, parent)) @@ @])

\* the loop over treeItem.GetChildren() of NewResultGroup
AddChildren(t, group, cs, st) ==
  IF cs = << >> THEN st
  ELSE LET c == Head(cs)
           st1 == IF t.kind[c] = "benchmark"
                  THEN AttachIfNotEmpty(group, c, NewResultGroup(t, c, group, st))
                  ELSE AddControl(c, group, st)
       IN AddChildren(t, group, Tail(cs), st1)

RECURSIVE AddRootItems(_, _, _)
\* the loop over rootItems of NewRootResultGroup
AddRootItems(t, items, st) ==
  IF items = << >> THEN st
  ELSE LET item == Head(items)
           st1 == IF t.kind[item] = "control"
                  THEN AddControl(item, Root, st)
                  ELSE AttachToRoot(Root, item, NewResultGroup(t, item, Root, st))
       IN AddRootItems(t, Tail(items), st1)

\* NewRootResultGroup
NewRootResultGroup(t) ==
  AddRootItems(t, GetChildren(t, 0),
               [groups |-> (Root :> RootGroupRecord), runs |-> << >>])

\* ------------------------------------------------------------------------
\* Pure parts of the execution
\* ------------------------------------------------------------------------
\* time.Millisecond, in nanoseconds
Millisecond == 1000000

\* time.Duration.Round(m) for d >= 0: to the nearest multiple, halves up
Round(d, m) ==
  LET r == d % m
  IN IF r + r < m THEN d - r ELSE d + m - r

RECURSIVE Contains(_, _)
Contains(seq, x) ==
  IF seq = << >> THEN FALSE
  ELSE IF Head(seq) = x THEN TRUE ELSE Contains(Tail(seq), x)

RECURSIVE Distinct(_, _)
Distinct(seq, seen) ==
  IF seq = << >> THEN seen
  ELSE IF Contains(seen, Head(seq)) THEN Distinct(Tail(seq), seen)
  ELSE Distinct(Tail(seq), Append(seen, Head(seq)))
\* utils.StringSliceDistinct: drop repeated strings, keep first occurrences
StringSliceDistinct(seq) == Distinct(seq, << >>)

RECURSIVE Insert(_, _)
Insert(sorted, x) ==
  IF sorted = << >> THEN <<x>>
  ELSE IF StrLess(x, Head(sorted)) THEN <<x>> \o sorted
  ELSE <<Head(sorted)>> \o Insert(Tail(sorted), x)
RECURSIVE SortStrings(_)
\* sort.Strings
SortStrings(seq) ==
  IF seq = << >> THEN << >>
  ELSE Insert(SortStrings(Tail(seq)), Head(seq))

RECURSIVE SetToSeq(_)
SetToSeq(S) ==
  IF S = {} THEN << >>
  ELSE LET x == CHOOSE y \in S : TRUE IN <<x>> \o SetToSeq(S \ {x})

\* field-wise addition of two StatusSummaries
AddSummary(a, b) ==
  [ Ok    |-> a.Ok + b.Ok,
    Alarm |-> a.Alarm + b.Alarm,
    Info  |-> a.Info + b.Info,
    Skip  |-> a.Skip + b.Skip,
    Error |-> a.Error + b.Error ]

\* the summary of one result row of the given status
RowSummary(status) ==
  [ Ok    |-> IF status = "ok" THEN 1 ELSE 0,
    Alarm |-> IF status = "alarm" THEN 1 ELSE 0,
    Info  |-> IF status = "info" THEN 1 ELSE 0,
    Skip  |-> IF status = "skip" THEN 1 ELSE 0,
    Error |-> IF status = "error" THEN 1 ELSE 0 ]

RECURSIVE SummaryOfRows(_)
\* a control run's StatusSummary: one unit per result row, by its status
SummaryOfRows(rows) ==
  IF rows = << >> THEN ZeroSummary
  ELSE AddSummary(RowSummary(Head(rows).status), SummaryOfRows(Tail(rows)))

RECURSIVE KeysOfRows(_)
KeysOfRows(rows) ==
  IF rows = << >> THEN {}
  ELSE Head(rows).dimensions \cup KeysOfRows(Tail(rows))

\* faulty variant of updateSummary: the alarm counter is not added
updateSummaryDropsAlarm(r, summary) ==
  [r EXCEPT !.Summary.Status = [AddSummary(@, summary) EXCEPT !.Alarm = r.Summary.Status.Alarm]]

\* faulty variant of updateSummary: the error counter is not added
updateSummaryDropsError(r, summary) ==
  [r EXCEPT !.Summary.Status = [AddSummary(@, summary) EXCEPT !.Error = r.Summary.Status.Error]]

\* faulty variant of updateSummary: the counters are assigned, not added to
updateSummaryAssigns(r, summary) ==
  [r EXCEPT !.Summary.Status = summary]

\* ResultGroup.updateSummary, lines 206-210, on the group record r
updateSummary(r, summary) ==
  [r EXCEPT !.Summary.Status = AddSummary(@, summary)]

\* faulty variant of updateSeverityCounts: the alarm counter is not added
updateSeverityCountsNoAlarm(r, severity, summary) ==
  LET exists == severity \in DOMAIN r.Severity
      val == IF exists THEN r.Severity[severity] ELSE ZeroSummary
  IN [r EXCEPT !.Summary.Severity =
        (severity :> [AddSummary(val, summary) EXCEPT !.Alarm = val.Alarm]) @@ @]

\* ResultGroup.updateSeverityCounts, lines 221-231, on the group record r
updateSeverityCounts(r, severity, summary) ==
  LET exists == severity \in DOMAIN r.Severity
      val == IF exists THEN r.Severity[severity] ELSE ZeroSummary
  IN [r EXCEPT !.Summary.Severity =
        (severity :> AddSummary(val, summary)) @@ @]

\* faulty variant of addDuration: nothing is added
addDurationDropped(r, d) == r

\* faulty variant of addDuration: the increment is not rounded
addDurationNotRounded(r, d) ==
  [r EXCEPT !.Duration = @ + d]

\* ResultGroup.addDuration, line 196, on the group record r
addDuration(r, d) ==
  [r EXCEPT !.Duration = @ + Round(d, Millisecond)]

\* faulty variant of appendDimensionKeys: the keys are also put into the Tags
appendDimensionKeysTagged(r, keys) ==
  [r EXCEPT !.DimensionKeys = @ \o keys,
            !.Tags = [k \in { keys[i] : i \in 1..Len(keys) } |-> 0] @@ @]

\* ResultGroup.addDimensionKeys, line 184, on the group record r
appendDimensionKeys(r, keys) ==
  [r EXCEPT !.DimensionKeys = @ \o keys]

\* faulty variant of distinctSortedDimensionKeys: repeated keys are kept
sortedDimensionKeysOnly(r) ==
  [r EXCEPT !.DimensionKeys = SortStrings(@)]

\* ResultGroup.addDimensionKeys, lines 188-189, on the group record r
distinctSortedDimensionKeys(r) ==
  [r EXCEPT !.DimensionKeys = SortStrings(StringSliceDistinct(@))]

\* the rows (status and dimension columns) the query of a control returns
\* when it succeeds, and the time its execution takes
QueryRowsOf(control) ==
  IF control % 3 = 1
  THEN << [status |-> "ok", dimensions |-> {"region"}] >>
  ELSE IF control % 3 = 2
  THEN << [status |-> "alarm", dimensions |-> {"account_id", "region"}],
          [status |-> "ok", dimensions |-> {"account_id", "region"}] >>
  ELSE << [status |-> "info", dimensions |-> {"account_id"}],
          [status |-> "skip", dimensions |-> {"account_id"}] >>
QueryDurationOf(control) ==
  IF control % 2 = 1 THEN 600000 ELSE IF control % 4 = 2 THEN 1600000 ELSE 400000

\* the results the query of a control can return when it succeeds: the rows
\* of QueryRowsOf or, for some controls, a single row in alarm
QueryResultsOf(control) ==
  {QueryRowsOf(control)}
    \cup (IF control % 3 = 2
          THEN {<< [status |-> "alarm", dimensions |-> {"account_id", "region"}] >>}
          ELSE {})

\* the errors a control run can end with
ErrCanceled == "context canceled"
ErrQuery == "query failed"
ErrPanic == "panic"

\* ------------------------------------------------------------------------
\* State
\* ------------------------------------------------------------------------
VARIABLES
  tree,         \* the source tree the ResultGroup tree was built from
  dryRun,       \* the dry-run setting
  maxParallel,  \* the capacity of parallelismLock
  groups,       \* the ResultGroups, by id
  runs,         \* the ControlRuns, by control id
  updateLock,   \* per group: the run whose update holds the mutex, or Free
  sem,          \* slots of parallelismLock that are held
  ctxCancelled, \* the context is cancelled
  walker,       \* the tree walk: the stack of ResultGroup.execute calls
  task,         \* per control run: where its handling stands
  acquired,     \* per run: successful Acquire calls for it (history)
  released,     \* per run: Release calls of its goroutine (history)
  panicked,     \* the runs whose execution panicked (history)
  pushed,       \* per run: the <<update, group>> calls made for it (history)
  cancelledBeforeAnyRun,  \* the context was cancelled before the walk came to any run (history)
  inFlightAtCancel,     \* the runs that held a slot when the context was cancelled (history)
  blockedAtCancel,      \* the walk waited in Acquire with no slot free when the context was cancelled (history)
  observedCancel        \* the walk has seen the context cancelled (history)

config == << tree, dryRun, maxParallel >>
history == << acquired, released, panicked, pushed, cancelledBeforeAnyRun,
              inFlightAtCancel, blockedAtCancel, observedCancel >>
vars == << config, groups, runs, updateLock, sem, ctxCancelled, walker, task,
           history >>

GroupIds == DOMAIN groups
RunIds == DOMAIN runs

\* faulty variant of Frame: the first loop begins at the second control run
FrameFromSecondRun(g) == [r |-> g, run |-> 2, child |-> 1]

\* a frame of ResultGroup.execute: the group, the index of the next control
\* run of the first loop, the index of the next child of the second loop
Frame(g) == [r |-> g, run |-> 1, child |-> 1]

IdleTask == [pc |-> "idle", sync |-> FALSE, op |-> 0, frames |-> << >>,
             returning |-> FALSE, arg |-> 0]

Init ==
  /\ tree \in { t \in SourceTrees : WellFormed(t) }
  /\ dryRun \in BOOLEAN
  /\ maxParallel \in {1, MaxParallel}
  /\ LET st == NewRootResultGroup(tree)
     IN /\ groups = st.groups
        /\ runs = st.runs
        /\ updateLock = [g \in DOMAIN st.groups |-> Free]
        /\ task = [c \in DOMAIN st.runs |-> IdleTask]
        /\ acquired = [c \in DOMAIN st.runs |-> 0]
        /\ released = [c \in DOMAIN st.runs |-> 0]
        /\ pushed = [c \in DOMAIN st.runs |-> {}]
  /\ sem = 0
  /\ ctxCancelled = FALSE
  /\ walker = [pc |-> "loop", stack |-> << Frame(Root) >>]
  /\ panicked = {}
  /\ cancelledBeforeAnyRun = FALSE
  /\ inFlightAtCancel = {}
  /\ blockedAtCancel = FALSE
  /\ observedCancel = FALSE

\* ------------------------------------------------------------------------
\* ControlRun operations
\* ------------------------------------------------------------------------
TerminalStatuses == {"complete", "skipped", "error"}

\* ControlRun.setError on the run record: record the error, count it, end
setError(run, err) ==
  [run EXCEPT !.runError = err,
              !.Summary.Error = @ + 1,
              !.RunStatus = "error"]

\* ControlRun.skip on the run record
skip(run) == [run EXCEPT !.RunStatus = "skipped"]

\* the upward updates a finished run pushes, in order
Updates(run) ==
  <<"updateSummary">>
  \o (IF run.Severity # "" THEN <<"updateSeverityCounts">> ELSE << >>)
  \o <<"addDuration", "addDimensionKeys">>

\* a finished run begins to push its updates; sync: on the walker's thread
BeginPush(sync) ==
  [pc |-> "push", sync |-> sync, op |-> 1, frames |-> << >>,
   returning |-> FALSE, arg |-> 0]

\* ------------------------------------------------------------------------
\* ResultGroup.execute: the tree walk
\* ------------------------------------------------------------------------
Top == walker.stack[Len(walker.stack)]
\* the loop of lines 241-269 stands at a control run of the group
AtRun ==
  /\ walker.pc = "loop"
  /\ walker.stack # << >>
  /\ Top.run <= Len(groups[Top.r].ControlRuns)
CurrentRun == groups[Top.r].ControlRuns[Top.run]

\* faulty variant of NextRun: the loop stays at the same control run
NextRunRepeats(w) == [w EXCEPT !.pc = "loop"]

\* the walker after the loop moved on to the next control run
NextRun(w) ==
  [w EXCEPT !.pc = "loop", !.stack[Len(w.stack)].run = @ + 1]

\* faulty variant of IsContextCancelled: the check is missing
NeverCancelled(cancelled) == FALSE

\* line 242: utils.IsContextCancelled(ctx)
IsContextCancelled(cancelled) == cancelled

\* faulty variant of DryRunSet: the setting is not read
DryRunIgnored(flag) == FALSE

\* line 247: viper.GetBool(constants.ArgDryRun)
DryRunSet(flag) == flag

\* lines 242-245: the context is cancelled, the run is set to error
ExecuteCancelled ==
  /\ AtRun
  /\ IsContextCancelled(ctxCancelled)
  /\ runs' = [runs EXCEPT ![CurrentRun] = setError(@, ErrCanceled)]
  /\ task' = [task EXCEPT ![CurrentRun] = BeginPush(TRUE)]
  /\ walker' = [walker EXCEPT !.pc = "call"]
  /\ observedCancel' = TRUE
  /\ UNCHANGED << config, groups, updateLock, sem, ctxCancelled, acquired,
                  released, panicked, pushed, cancelledBeforeAnyRun,
                  inFlightAtCancel, blockedAtCancel >>

\* lines 247-250: dry run, the run is skipped
ExecuteDryRun ==
  /\ AtRun
  /\ ~IsContextCancelled(ctxCancelled)
  /\ DryRunSet(dryRun)
  /\ runs' = [runs EXCEPT ![CurrentRun] = skip(@)]
  /\ task' = [task EXCEPT ![CurrentRun] = BeginPush(TRUE)]
  /\ walker' = [walker EXCEPT !.pc = "call"]
  /\ UNCHANGED << config, groups, updateLock, sem, ctxCancelled, history >>

\* line 252: the walk calls parallelismLock.Acquire
ExecuteAcquire ==
  /\ AtRun
  /\ ~IsContextCancelled(ctxCancelled)
  /\ ~DryRunSet(dryRun)
  /\ walker' = [walker EXCEPT !.pc = "acquire"]
  /\ UNCHANGED << config, groups, runs, updateLock, sem, ctxCancelled, task,
                  history >>

\* faulty variant of CanAcquire: one slot too many
CanAcquireOffByOne(held, capacity) == held <= capacity

\* semaphore.Weighted.Acquire(ctx, 1) can succeed: a slot is free
CanAcquire(held, capacity) == held < capacity

\* lines 252, 258-268: Acquire succeeds and the run is dispatched: its
\* goroutine calls run.execute, which marks the run started and sends the query
AcquireOk ==
  /\ walker.pc = "acquire"
  /\ CanAcquire(sem, maxParallel)
  /\ sem' = sem + 1
  /\ acquired' = [acquired EXCEPT ![CurrentRun] = @ + 1]
  /\ runs' = [runs EXCEPT ![CurrentRun].RunStatus = "started"]
  /\ task' = [task EXCEPT ![CurrentRun].pc = "query"]
  /\ walker' = NextRun(walker)
  /\ UNCHANGED << config, groups, updateLock, ctxCancelled, released, panicked,
                  pushed, cancelledBeforeAnyRun,
                  inFlightAtCancel, blockedAtCancel, observedCancel >>

\* lines 252-256: Acquire fails because the context is cancelled
AcquireFail ==
  /\ walker.pc = "acquire"
  /\ ctxCancelled
  /\ runs' = [runs EXCEPT ![CurrentRun] = setError(@, ErrCanceled)]
  /\ task' = [task EXCEPT ![CurrentRun] = BeginPush(TRUE)]
  /\ walker' = [walker EXCEPT !.pc = "call"]
  /\ observedCancel' = TRUE
  /\ UNCHANGED << config, groups, updateLock, sem, ctxCancelled, acquired,
                  released, panicked, pushed, cancelledBeforeAnyRun,
                  inFlightAtCancel, blockedAtCancel >>

\* lines 270-272: the walk enters the next child group
ExecuteChild ==
  /\ walker.pc = "loop"
  /\ walker.stack # << >>
  /\ Top.run > Len(groups[Top.r].ControlRuns)
  /\ Top.child <= Len(groups[Top.r].Groups)
  /\ walker' = [walker EXCEPT
                  !.stack = Append([@ EXCEPT ![Len(@)].child = Top.child + 1],
                                   Frame(groups[Top.r].Groups[Top.child]))]
  /\ UNCHANGED << config, groups, runs, updateLock, sem, ctxCancelled, task,
                  history >>

\* line 273: execute returns to its caller
ExecuteReturn ==
  /\ walker.pc = "loop"
  /\ walker.stack # << >>
  /\ Top.run > Len(groups[Top.r].ControlRuns)
  /\ Top.child > Len(groups[Top.r].Groups)
  /\ walker' = [pc |-> IF Len(walker.stack) = 1 THEN "returned" ELSE "loop",
                stack |-> SubSeq(walker.stack, 1, Len(walker.stack) - 1)]
  /\ UNCHANGED << config, groups, runs, updateLock, sem, ctxCancelled, task,
                  history >>

\* ------------------------------------------------------------------------
\* The dispatched goroutine of lines 258-268 and ControlRun.execute
\* ------------------------------------------------------------------------
\* the query returns its rows: the run completes with their summary
QueryRows(c) ==
  /\ task[c].pc = "query"
  /\ \E rows \in QueryResultsOf(c) :
       runs' = [runs EXCEPT ![c].Summary = SummaryOfRows(rows),
                            ![c].DimensionKeys = SetToSeq(KeysOfRows(rows)),
                            ![c].Duration = QueryDurationOf(c),
                            ![c].RunStatus = "complete"]
  /\ task' = [task EXCEPT ![c] = BeginPush(FALSE)]
  /\ UNCHANGED << config, groups, updateLock, sem, ctxCancelled, walker,
                  history >>

\* the query fails: the run ends in error
QueryFails(c) ==
  /\ task[c].pc = "query"
  /\ runs' = [runs EXCEPT ![c] = [setError(@, ErrQuery) EXCEPT
                                    !.Duration = QueryDurationOf(c)]]
  /\ task' = [task EXCEPT ![c] = BeginPush(FALSE)]
  /\ UNCHANGED << config, groups, updateLock, sem, ctxCancelled, walker,
                  history >>

\* faulty variant of Recovered: the recovered fault is dropped
NotRecovered(run) == run

\* lines 260-263: the deferred function recovers and sets the run to error
Recovered(run) == setError(run, ErrPanic)

\* the execution panics: run.execute unwinds to the deferred function of the
\* goroutine, which recovers
QueryPanics(c) ==
  /\ task[c].pc = "query"
  /\ runs' = [runs EXCEPT ![c] = Recovered(@)]
  /\ task' = [task EXCEPT ![c] = BeginPush(FALSE)]
  /\ panicked' = panicked \cup {c}
  /\ UNCHANGED << config, groups, updateLock, sem, ctxCancelled, walker,
                  acquired, released, pushed, cancelledBeforeAnyRun,
                  inFlightAtCancel, blockedAtCancel, observedCancel >>

\* faulty variant of DeferredRelease: Release is called after run.execute
\* returned and not in the deferred function, so a panic skips it
ReleaseOnReturnOnly(held, run) ==
  IF run.runError = ErrPanic THEN held ELSE held - 1

\* lines 259-266: the slots held after the deferred function of the goroutine
\* of run ran; it runs on return and on panic of run.execute
DeferredRelease(held, run) == held - 1

\* line 265: parallelismLock.Release(1), last step of the goroutine
Release(c) ==
  /\ task[c].pc = "release"
  /\ sem' = DeferredRelease(sem, runs[c])
  /\ released' = [released EXCEPT ![c] = @ + (sem - sem')]
  /\ task' = [task EXCEPT ![c].pc = "done"]
  /\ UNCHANGED << config, groups, runs, updateLock, ctxCancelled, walker,
                  acquired, panicked, pushed, cancelledBeforeAnyRun,
                  inFlightAtCancel, blockedAtCancel, observedCancel >>

\* ------------------------------------------------------------------------
\* The upward updates
\* ------------------------------------------------------------------------
Last(seq) == seq[Len(seq)]
Front(seq) == SubSeq(seq, 1, Len(seq) - 1)

\* the update the run c is pushing
CurrentUpdate(c) == Updates(runs[c])[task[c].op]

\* faulty variant of NextGroup: the update is not passed on to the parent
NextGroupNoParent(gs, first, frames) ==
  IF frames = << >> THEN first ELSE NoGroup

\* faulty variant of NextGroup: the first call goes to the root
NextGroupRootFirst(gs, first, frames) ==
  IF frames = << >> THEN Root ELSE gs[Last(frames)].Parent

\* lines 185, 197, 212, 232: the group the call after those of frames goes
\* to: the run's group first, then the Parent of the last one (NoGroup: none)
NextGroup(gs, first, frames) ==
  IF frames = << >> THEN first ELSE gs[Last(frames)].Parent

\* the argument d of the next addDuration call (line 198 passes d rounded)
NextArg(c) ==
  IF task[c].frames = << >> THEN runs[c].Duration
  ELSE Round(task[c].arg, Millisecond)

\* the body of the update up to the recursive call, on the group record r
ApplyUpdate(op, r, run, d) ==
  CASE op = "updateSummary" -> updateSummary(r, run.Summary)
    [] op = "updateSeverityCounts" -> updateSeverityCounts(r, run.Severity, run.Summary)
    [] op = "addDuration" -> addDuration(r, d)
    [] op = "addDimensionKeys" -> appendDimensionKeys(r, run.DimensionKeys)

\* the body of the update after the recursive call, on the group record r
FinishUpdate(op, r) ==
  IF op = "addDimensionKeys" THEN distinctSortedDimensionKeys(r) ELSE r

\* faulty variant of Unlock: the deferred Unlock is missing
UnlockMissing(locks, g) == locks

\* lines 183, 194, 204, 219: the deferred r.updateLock.Unlock()
Unlock(locks, g) == [locks EXCEPT ![g] = Free]

\* a call of the update: Lock the group, change it; the call to the parent
\* comes next, with the lock still held (defer Unlock)
UpdateEnter(c) ==
  /\ task[c].pc = "push"
  /\ ~task[c].returning
  /\ LET n == NextGroup(groups, runs[c].group, task[c].frames)
     IN /\ updateLock[n] = Free
        /\ updateLock' = [updateLock EXCEPT ![n] = c]
        /\ groups' = [groups EXCEPT
                        ![n] = ApplyUpdate(CurrentUpdate(c), @, runs[c], NextArg(c))]
        /\ task' = [task EXCEPT
                      ![c].frames = Append(@, n),
                      ![c].arg = NextArg(c),
                      ![c].returning =
                        (NextGroup(groups, runs[c].group, Append(task[c].frames, n))
                           = NoGroup)]
        /\ pushed' = [pushed EXCEPT ![c] = @ \cup {<<CurrentUpdate(c), n>>}]
  /\ UNCHANGED << config, runs, sem, ctxCancelled, walker, acquired, released,
                  panicked, cancelledBeforeAnyRun,
                  inFlightAtCancel, blockedAtCancel, observedCancel >>

\* the task of c after the outermost call of its current update returned
AfterUpdate(c) ==
  IF task[c].op < Len(Updates(runs[c]))
  THEN [task[c] EXCEPT !.op = @ + 1, !.frames = << >>, !.returning = FALSE]
  ELSE [task[c] EXCEPT !.pc = IF task[c].sync THEN "done" ELSE "release",
                       !.frames = << >>, !.returning = FALSE]

\* a call of the update returns: the rest of its body, then the deferred Unlock
UpdateReturn(c) ==
  /\ task[c].pc = "push"
  /\ task[c].returning
  /\ LET n == Last(task[c].frames)
         outermost == Len(task[c].frames) = 1
         finished == outermost /\ task[c].op = Len(Updates(runs[c]))
     IN /\ groups' = [groups EXCEPT ![n] = FinishUpdate(CurrentUpdate(c), @)]
        /\ updateLock' = Unlock(updateLock, n)
        /\ task' = [task EXCEPT
                      ![c] = IF outermost THEN AfterUpdate(c)
                             ELSE [@ EXCEPT !.frames = Front(@)]]
        \* setError or skip called by the walk returns: line 244, 249 or 255
        /\ walker' = IF finished /\ task[c].sync THEN NextRun(walker) ELSE walker
  /\ UNCHANGED << config, runs, sem, ctxCancelled, history >>

\* ------------------------------------------------------------------------
\* The environment, and the specifications
\* ------------------------------------------------------------------------
\* the runs whose goroutine holds a slot: dispatched and not yet released
Executing ==
  { c \in RunIds : \/ task[c].pc \in {"query", "release"}
                   \/ task[c].pc = "push" /\ ~task[c].sync }

\* the walk has not yet come to the check of line 242 for any control run
NoRunHandled ==
  /\ walker.pc = "loop"
  /\ \A c \in RunIds : task[c].pc = "idle"

\* the caller cancels the context
Cancel ==
  /\ ~ctxCancelled
  /\ ctxCancelled' = TRUE
  /\ cancelledBeforeAnyRun' = NoRunHandled
  /\ inFlightAtCancel' = Executing
  /\ blockedAtCancel' = (walker.pc = "acquire" /\ ~CanAcquire(sem, maxParallel))
  /\ UNCHANGED << config, groups, runs, updateLock, sem, walker, task,
                  acquired, released, panicked, pushed, observedCancel >>

\* a step of the tree walk
Walk ==
  \/ ExecuteCancelled
  \/ ExecuteDryRun
  \/ ExecuteAcquire
  \/ AcquireOk
  \/ AcquireFail
  \/ ExecuteChild
  \/ ExecuteReturn

\* a step of the execution, or of the handling on the walk's thread, of run c
RunStep(c) ==
  /\ c \in RunIds
  /\ \/ QueryRows(c)
     \/ QueryFails(c)
     \/ QueryPanics(c)
     \/ Release(c)
     \/ UpdateEnter(c)
     \/ UpdateReturn(c)

Next ==
  \/ ExecuteCancelled
  \/ ExecuteDryRun
  \/ ExecuteAcquire
  \/ AcquireOk
  \/ AcquireFail
  \/ ExecuteChild
  \/ ExecuteReturn
  \/ \E c \in RunIds : QueryRows(c)
  \/ \E c \in RunIds : QueryFails(c)
  \/ \E c \in RunIds : QueryPanics(c)
  \/ \E c \in RunIds : Release(c)
  \/ \E c \in RunIds : UpdateEnter(c)
  \/ \E c \in RunIds : UpdateReturn(c)
  \/ Cancel

Spec == Init /\ [][Next]_vars

\* The Go scheduler runs every goroutine that can take a step, and a query
\* sent to the client returns, fails or panics; the caller need not cancel.
FairSpec ==
  /\ Spec
  /\ WF_vars(Walk)
  /\ \A c \in ItemIds : WF_vars(RunStep(c))

\* the walk has returned and every run has been handled to its end
Quiescent ==
  /\ walker.pc = "returned"
  /\ \A c \in RunIds : task[c].pc = "done"

\* ------------------------------------------------------------------------
\* Aggregation at quiescence
\* ------------------------------------------------------------------------
RECURSIVE PathToRoot(_, _)
\* a group and its ancestors
PathToRoot(gs, g) ==
  IF g = NoGroup THEN {} ELSE {g} \cup PathToRoot(gs, gs[g].Parent)

RECURSIVE SumOfRuns(_)
SumOfRuns(cs) ==
  IF cs = << >> THEN ZeroSummary
  ELSE AddSummary(runs[Head(cs)].Summary, SumOfRuns(Tail(cs)))

RECURSIVE SumOfGroups(_)
SumOfGroups(gs) ==
  IF gs = << >> THEN ZeroSummary
  ELSE AddSummary(groups[Head(gs)].Summary.Status, SumOfGroups(Tail(gs)))

\* every run is terminal and has finished its upward updates
UpdatesFinished == \A c \in RunIds : task[c].pc \in {"release", "done"}

\* C1: once every run is terminal and all upward updates have finished, the
\* Summary.Status of every ResultGroup is, counter by counter, the sum of the
\* summaries of its direct ControlRuns and of the Summary.Status of its child
\* ResultGroups.
C1_SummaryIsSumOfChildren ==
  UpdatesFinished =>
    \A g \in GroupIds :
      groups[g].Summary.Status =
        AddSummary(SumOfRuns(groups[g].ControlRuns), SumOfGroups(groups[g].Groups))

\* a quiescent tree where a group with a direct run and a child group has
\* counted rows of the child and an error
C1_Witness ==
  /\ Quiescent
  /\ \E g \in GroupIds :
       /\ groups[g].ControlRuns # << >>
       /\ groups[g].Groups # << >>
       /\ SumOfGroups(groups[g].Groups).Alarm > 0
       /\ groups[g].Summary.Status.Error > 0
       /\ groups[g].Summary.Status.Ok > 0

\* ------------------------------------------------------------------------
\* The parallelism semaphore
\* ------------------------------------------------------------------------
\* C2: in every reachable state the number of control runs that hold a slot
\* of the semaphore is at most its capacity; with capacity 1 no two runs
\* execute at the same time.
C2_AtMostCapacityExecuting ==
  /\ Cardinality(Executing) <= maxParallel
  /\ maxParallel = 1 => \A c, d \in Executing : c = d

\* all slots are held and the walk waits in Acquire for a further run
C2_Witness ==
  /\ maxParallel = MaxParallel
  /\ Cardinality(Executing) = MaxParallel
  /\ walker.pc = "acquire"

\* C3: every successful Acquire is followed by exactly one Release, on the
\* normal and on the panic path: a run's goroutine never releases more than
\* was acquired for it, has released its slot when it has ended, and when no
\* dispatched run is left the semaphore is back at full capacity.
C3_OneReleasePerAcquire ==
  /\ \A c \in RunIds :
       /\ released[c] <= acquired[c]
       /\ acquired[c] <= 1
       /\ task[c].pc = "done" => released[c] = acquired[c]
  /\ Executing = {} => sem = 0

\* all runs have ended, one that panicked and one that did not, both released
C3_Witness ==
  /\ Quiescent
  /\ \E c \in panicked : released[c] = 1
  /\ \E c \in RunIds \ panicked : released[c] = 1
  /\ sem = 0

\* ------------------------------------------------------------------------
\* Faults, termination, cancellation, dry run
\* ------------------------------------------------------------------------
AllTerminal == \A c \in RunIds : runs[c].RunStatus \in TerminalStatuses

\* C4: a panic of a dispatched run's execution is recorded as that run's
\* error, and a panic never keeps the other runs, of the same or of another
\* group, from being handled: the walk returns and every run gets terminal.
C4_PanicContained ==
  /\ [](\A c \in panicked : /\ runs[c].RunStatus = "error"
                            /\ runs[c].runError = ErrPanic)
  /\ (panicked # {}) ~> (Quiescent /\ AllTerminal)

\* with one slot: a run panicked, and a run handled after it in the same
\* group was dispatched and completed
C4_Witness ==
  /\ Quiescent
  /\ maxParallel = 1
  /\ \E c \in panicked : \E d \in RunIds :
       /\ d > c
       /\ runs[d].group = runs[c].group
       /\ acquired[d] = 1
       /\ runs[d].RunStatus = "complete"

\* C5: under fair scheduling, with queries that return, fail or panic, the
\* execution of the tree terminates: the walk returns and every ControlRun
\* reaches a terminal state.
C5_Terminates == <>(Quiescent /\ AllTerminal)

\* the execution ended after a panic, a failed query and a cancellation
C5_Witness ==
  /\ Quiescent
  /\ AllTerminal
  /\ ctxCancelled
  /\ panicked # {}
  /\ \E c \in RunIds : runs[c].runError = ErrQuery
  /\ \E c \in RunIds : runs[c].runError = ErrCanceled

\* the aggregates of a group record
Aggregates(r) ==
  [ Status        |-> r.Summary.Status,
    Severity      |-> r.Summary.Severity,
    Duration      |-> r.Duration,
    DimensionKeys |-> r.DimensionKeys ]

RECURSIVE ApplyUp(_, _, _, _, _)
\* one update of a run, made without interleaving from group g up to the root
ApplyUp(gs, g, op, run, d) ==
  IF g = NoGroup THEN gs
  ELSE ApplyUp([gs EXCEPT ![g] = FinishUpdate(op, ApplyUpdate(op, @, run, d))],
               gs[g].Parent, op, run, Round(d, Millisecond))

RECURSIVE ApplyUpdates(_, _, _)
ApplyUpdates(gs, run, ops) ==
  IF ops = << >> THEN gs
  ELSE ApplyUpdates(ApplyUp(gs, run.group, Head(ops), run, run.Duration),
                    run, Tail(ops))

RECURSIVE InOrder(_, _)
\* the groups after the runs of cs pushed their updates one after another
InOrder(gs, cs) ==
  IF cs = << >> THEN gs
  ELSE InOrder(ApplyUpdates(gs, runs[Head(cs)], Updates(runs[Head(cs)])), Tail(cs))

\* C6: for a fixed tree and fixed outcomes of the runs, the final
\* Summary.Status, Summary.Severity, Duration and DimensionKeys of every
\* group do not depend on the order in which the runs complete: they are what
\* the runs give when they push their updates one by one in declaration order.
C6_OrderIndependent ==
  Quiescent =>
    \A g \in GroupIds :
      Aggregates(groups[g]) =
        Aggregates(InOrder(NewRootResultGroup(tree).groups, SortedSeq(RunIds))[g])

C8_DryRunSkipsAll ==
  (dryRun /\ ~ctxCancelled /\ Quiescent) =>
    /\ \A c \in RunIds : runs[c].RunStatus = "skipped"
    /\ \A g \in GroupIds : /\ groups[g].Summary.Status.Ok = 0
                           /\ groups[g].Summary.Status.Alarm = 0
                           /\ groups[g].Summary.Status.Info = 0
                           /\ groups[g].Summary.Status.Error = 0

\* a dry run of a tree with several runs, one below a child group
C8_Witness ==
  /\ dryRun
  /\ ~ctxCancelled
  /\ Quiescent
  /\ Cardinality(RunIds) >= 2
  /\ \E c \in RunIds : runs[c].group # Root

\* the updates of run c have reached every group from its own to the root
PushedToAllAncestors(c) ==
  \A op \in {"updateSummary", "addDuration", "addDimensionKeys"} :
    \A g \in PathToRoot(groups, runs[c].group) : <<op, g>> \in pushed[c]

\* C9: cancellation is not retroactive. A dispatched run ends in a terminal
\* state of its own execution and its completion updates summary, duration
\* and dimension keys of all its ancestors, cancelled context or not; only
\* runs that were never dispatched carry the cancellation error, and once the
\* walk has seen the cancellation it dispatches no further run.
C9_CancellationNotRetroactive ==
  /\ [](\A c \in RunIds :
          /\ (acquired[c] = 1 /\ task[c].pc = "done") =>
               /\ runs[c].RunStatus \in {"complete", "error"}
               /\ runs[c].runError # ErrCanceled
               /\ PushedToAllAncestors(c)
          /\ runs[c].runError = ErrCanceled => acquired[c] = 0)
  /\ [][observedCancel => acquired' = acquired]_vars

\* a run dispatched before the cancellation has completed and updated its
\* ancestors after the walk marked a later run with the cancellation error
C9_Witness ==
  \E c, d \in RunIds :
    /\ task[d].pc = "done"
    /\ runs[d].runError = ErrCanceled
    /\ runs[c].group # Root
    /\ acquired[c] = 1
    /\ task[c].pc = "done"
    /\ runs[c].RunStatus = "complete"
    /\ c \in inFlightAtCancel

\* ------------------------------------------------------------------------
\* The built tree
\* ------------------------------------------------------------------------
\* C10: in every built tree no ResultGroup without control runs in its
\* subtree is in the Groups of any group, the root included.
C10_NoEmptyGroupAttached ==
  \A p \in GroupIds :
    \A k \in 1..Len(groups[p].Groups) :
      ControlRunCount(groups, groups[p].Groups[k]) > 0

\* ------------------------------------------------------------------------
\* Severity counts, dimension keys and duration at quiescence
\* ------------------------------------------------------------------------
\* the control runs in the subtree of group g
RunsInSubtree(g) == { c \in RunIds : g \in PathToRoot(groups, runs[c].group) }

RECURSIVE SumOfSummaries(_)
\* the counter-by-counter sum of the summaries of a set of runs
SumOfSummaries(cs) ==
  IF cs = {} THEN ZeroSummary
  ELSE LET c == CHOOSE x \in cs : TRUE
       IN AddSummary(runs[c].Summary, SumOfSummaries(cs \ {c}))

\* the severity labels declared by the controls of a set of runs
SeveritiesOf(cs) == { runs[c].Severity : c \in cs } \ {""}

\* C11: after quiescence, for every group and every severity label s that a
\* control of its subtree declares, Summary.Severity[s] is the
\* counter-by-counter sum of the summaries of all runs of the subtree whose
\* control declares s, however many they are.
C11_SeverityAccumulates ==
  Quiescent =>
    \A g \in GroupIds :
      \A s \in SeveritiesOf(RunsInSubtree(g)) :
        /\ s \in DOMAIN groups[g].Summary.Severity
        /\ groups[g].Summary.Severity[s] =
             SumOfSummaries({ c \in RunsInSubtree(g) : runs[c].Severity = s })

\* the summary of one row in alarm
OneAlarm == [ZeroSummary EXCEPT !.Alarm = 1]

\* c is the only run of the tree whose control declares severity "high", and
\* it completed with one row, in alarm
SingleHighAlarm(c) ==
  /\ runs[c].Severity = "high"
  /\ \A d \in RunIds \ {c} : runs[d].Severity # "high"
  /\ runs[c].RunStatus = "complete"
  /\ runs[c].Summary = OneAlarm

\* C12: when a single control of severity "high" produced one alarm row, after
\* quiescence every group from its own up to the root has
\* Summary.Severity["high"] = {alarm: 1, all others 0}; and no group has an
\* entry in its severity map but for the severities that controls of its
\* subtree declare, so a control without severity creates none.
C12_SingleHighAlarm ==
  Quiescent =>
    /\ \A c \in RunIds :
         SingleHighAlarm(c) =>
           \A g \in PathToRoot(groups, runs[c].group) :
             /\ "high" \in DOMAIN groups[g].Summary.Severity
             /\ groups[g].Summary.Severity["high"] = OneAlarm
    /\ \A g \in GroupIds :
         DOMAIN groups[g].Summary.Severity \subseteq SeveritiesOf(RunsInSubtree(g))

\* below a benchmark, the single control of severity "high" gave one alarm
\* row and a control without severity completed too; the root has the entry
\* of "high" and no other
C12_Witness ==
  /\ Quiescent
  /\ \E c, d \in RunIds :
       /\ SingleHighAlarm(c)
       /\ runs[c].group # Root
       /\ runs[d].Severity = ""
       /\ runs[d].group = runs[c].group
       /\ runs[d].RunStatus = "complete"
  /\ groups[Root].Summary.Severity = ("high" :> OneAlarm)

\* the elements of a sequence
Range(seq) == { seq[k] : k \in 1..Len(seq) }

\* the sequence is in ascending string order without repeated elements
StrictlySorted(seq) ==
  \A k \in 1..(Len(seq) - 1) : StrLess(seq[k], seq[k + 1])

\* the dimension keys pushed by the runs of a set
KeysPushedBy(cs) == UNION { Range(runs[c].DimensionKeys) : c \in cs }

\* C13: after quiescence the DimensionKeys of every group is the sorted list
\* without duplicates of the union of the dimension keys pushed by the runs
\* of its subtree, whatever the order of the addDimensionKeys calls was.
C13_DimensionKeysSortedUnion ==
  Quiescent =>
    \A g \in GroupIds :
      /\ StrictlySorted(groups[g].DimensionKeys)
      /\ Range(groups[g].DimensionKeys) = KeysPushedBy(RunsInSubtree(g))

\* with two slots, a run with the key "region" and a run with the key
\* "account_id" of the same group were both in flight and completed; the
\* group has <<"account_id", "region">>; a third run repeated a key
C13_Witness ==
  /\ Quiescent
  /\ maxParallel = MaxParallel
  /\ \E c, d \in RunIds :
       /\ runs[c].group = runs[d].group
       /\ runs[c].DimensionKeys = <<"region">>
       /\ runs[d].DimensionKeys = <<"account_id">>
       /\ {c, d} \subseteq inFlightAtCancel
       /\ groups[runs[c].group].DimensionKeys = <<"account_id", "region">>
  /\ \E e \in RunIds : Len(runs[e].DimensionKeys) = 2

RECURSIVE SumOfRounded(_)
\* the sum of the durations of a set of runs, each rounded to the millisecond
SumOfRounded(cs) ==
  IF cs = {} THEN 0
  ELSE LET c == CHOOSE x \in cs : TRUE
       IN Round(runs[c].Duration, Millisecond) + SumOfRounded(cs \ {c})

\* C14: after quiescence the Duration of every group is the sum, over the
\* runs of its subtree, of the duration of the run rounded to the millisecond:
\* each increment is rounded before it is added, the sum is not rounded after.
C14_DurationSumOfRounded ==
  Quiescent =>
    \A g \in GroupIds :
      groups[g].Duration = SumOfRounded(RunsInSubtree(g))

\* the two runs of a group took the same time D, which is not a multiple of
\* the millisecond: the group has 2 * round(D), which is not round(2 * D)
C14_Witness ==
  /\ Quiescent
  /\ \E c, d \in RunIds :
       /\ c # d
       /\ runs[d].group = runs[c].group
       /\ RunsInSubtree(runs[c].group) = {c, d}
       /\ runs[c].Duration % Millisecond # 0
       /\ runs[d].Duration = runs[c].Duration
       /\ groups[runs[c].group].Duration = 2 * Round(runs[c].Duration, Millisecond)
       /\ groups[runs[c].group].Duration # Round(2 * runs[c].Duration, Millisecond)

\* ------------------------------------------------------------------------
\* Terminal states and errors of the control runs
\* ------------------------------------------------------------------------
\* C15: during one execution of the tree every ControlRun gets terminal
\* exactly once: it does get terminal, and once it is terminal (by
\* cancellation, skip, failed Acquire, or the outcome of its dispatched
\* execution, a panic included) its status, its error and its StatusSummary
\* never change again.
C15_TerminalExactlyOnce ==
  /\ [][\A c \in RunIds :
          runs[c].RunStatus \in TerminalStatuses => runs'[c] = runs[c]]_vars
  /\ \A c \in ItemIds :
       <>(c \in RunIds => runs[c].RunStatus \in TerminalStatuses)

\* the execution ended; a run panicked and has the one error of the recovery,
\* another completed, another was set to error by the walk after cancellation
C15_Witness ==
  /\ Quiescent
  /\ \E c \in panicked : /\ runs[c].RunStatus = "error"
                         /\ runs[c].Summary = [ZeroSummary EXCEPT !.Error = 1]
  /\ \E d \in RunIds : runs[d].RunStatus = "complete"
  /\ \E e \in RunIds : /\ runs[e].runError = ErrCanceled
                       /\ acquired[e] = 0
                       /\ runs[e].Summary = [ZeroSummary EXCEPT !.Error = 1]

\* the summary of a run that ended in error: one unit of error
OneError == [ZeroSummary EXCEPT !.Error = 1]

\* the runs of a set that ended in error
ErrorRuns(cs) == { c \in cs : runs[c].RunStatus = "error" }

\* C16: a control run that ends in error (cancellation, failed Acquire,
\* failed query or panic) counts as one unit of error and nothing else: its
\* own summary is {error: 1}, and after the walk has returned and all updates
\* are made, every group has as error counter the number of runs of its
\* subtree that ended in error, and as other counters what the other runs of
\* its subtree gave. An error does not end the walk: it returns as ever.
C16_ErrorCountsOnce ==
  /\ \A c \in ErrorRuns(RunIds) :
       /\ runs[c].Summary = OneError
       /\ runs[c].runError \in {ErrCanceled, ErrQuery, ErrPanic}
  /\ Quiescent =>
       \A g \in GroupIds :
         groups[g].Summary.Status =
           AddSummary(SumOfSummaries(RunsInSubtree(g) \ ErrorRuns(RunIds)),
                      [ZeroSummary EXCEPT
                         !.Error = Cardinality(ErrorRuns(RunsInSubtree(g)))])

\* the walk returned; a run below a benchmark ended in error after it was
\* dispatched, a run of the root completed: the benchmark counts {error: 1},
\* the root one error and the rows of the other run
C16_Witness ==
  /\ Quiescent
  /\ \E c, d \in RunIds :
       /\ runs[c].group # Root
       /\ runs[c].runError \in {ErrQuery, ErrPanic}
       /\ groups[runs[c].group].Summary.Status = OneError
       /\ runs[d].group = Root
       /\ runs[d].RunStatus = "complete"
       /\ groups[Root].Summary.Status = AddSummary(runs[d].Summary, OneError)

\* ------------------------------------------------------------------------
\* The update locks
\* ------------------------------------------------------------------------
\* the groups whose updateLock is held by a call made for run c
LocksHeldBy(c) == { g \in GroupIds : updateLock[g] = c }

\* C17: while it pushes an update toward the root, a task never holds the
\* update locks of two groups at the same time.
C17_NeverTwoLocks ==
  \A c \in RunIds : Cardinality(LocksHeldBy(c)) <= 1

\* the call that the update of run c makes next can go on: it returns, or
\* the lock it needs is free
CanGoOn(c) ==
  \/ task[c].returning
  \/ updateLock[NextGroup(groups, runs[c].group, task[c].frames)] = Free

C19_GroupIdQualifiedForDependencyOnly ==
  \A g \in GroupIds \ {Root} :
    groups[g].GroupId =
      IF GetMod(groups[g].GroupItem) = WorkspaceMod
      THEN UnqualifiedResourceName(Name(tree, groups[g].GroupItem))
      ELSE Name(tree, groups[g].GroupItem)

\* the nil *ControlRun
NoRun == 0

RECURSIVE FirstRunNamed(_, _)
\* the loop of lines 165-169: the first run of cs whose control has the name
FirstRunNamed(cs, name) ==
  IF cs = << >> THEN NoRun
  ELSE IF Name(tree, runs[Head(cs)].Control) = name THEN Head(cs)
  ELSE FirstRunNamed(Tail(cs), name)

\* ResultGroup.GetControlRunByName
GetControlRunByName(r, name) == FirstRunNamed(groups[r].ControlRuns, name)

\* the names looked for: those of all items of the tree (the name of a
\* benchmark is the name of no control)
LookupNames == { Name(tree, i) : i \in 1..tree.n }

\* C20: GetControlRunByName(name) on a group returns a run whose control has
\* that name whenever there is one anywhere in the subtree of the group, and
\* nothing otherwise.
C20_FindsDescendantControl ==
  \A g \in GroupIds :
    \A name \in LookupNames :
      LET found == GetControlRunByName(g, name)
          named == { c \in RunsInSubtree(g) : Name(tree, runs[c].Control) = name }
      IN IF named = {} THEN found = NoRun ELSE found \in named

RECURSIVE FirstGroupNamed(_, _)
\* the loop of lines 142-147: the first group of gs with that GroupId
FirstGroupNamed(gs, name) ==
  IF gs = << >> THEN NoGroup
  ELSE IF groups[Head(gs)].GroupId = name THEN Head(gs)
  ELSE FirstGroupNamed(Tail(gs), name)

\* ResultGroup.GetGroupByName
GetGroupByName(r, name) == FirstGroupNamed(groups[r].Groups, name)

RECURSIVE NestedGroupNamed(_, _)
\* faulty variant of NestedGroupNamed: the groups below a child are not searched
NestedGroupNamedShallow(gs, name) ==
  IF gs = << >> THEN NoGroup
  ELSE IF groups[Head(gs)].GroupId = name THEN Head(gs)
  ELSE NestedGroupNamed(Tail(gs), name)

\* the loop of lines 152-160: each group of gs, and below it before the next
NestedGroupNamed(gs, name) ==
  IF gs = << >> THEN NoGroup
  ELSE IF groups[Head(gs)].GroupId = name THEN Head(gs)
  ELSE LET child == NestedGroupNamed(groups[Head(gs)].Groups, name)
       IN IF child # NoGroup THEN child
          ELSE NestedGroupNamed(Tail(gs), name)

\* ResultGroup.GetChildGroupByName
GetChildGroupByName(r, name) == NestedGroupNamed(groups[r].Groups, name)

RECURSIVE PreOrderOf(_)
\* the groups below those of gs, each followed by the groups below it
PreOrderOf(gs) ==
  IF gs = << >> THEN << >>
  ELSE <<Head(gs)>> \o PreOrderOf(groups[Head(gs)].Groups) \o PreOrderOf(Tail(gs))

\* the group ids looked for: those of all groups, qualified and unqualified
LookupGroupIds ==
  { groups[g].GroupId : g \in GroupIds }
    \cup { UnqualifiedResourceName(groups[g].GroupId) : g \in GroupIds }

ControlsOf(t) == { i \in 1..t.n : t.kind[i] = "control" }

\* C22: ControlRunCount() of a group is the number of ControlRuns anywhere in
\* its subtree; for the root of a built tree it is the number of controls of
\* the source tree.
C22_ControlRunCountIsSubtreeCount ==
  /\ \A g \in GroupIds :
       ControlRunCount(groups, g) = Cardinality(RunsInSubtree(g))
  /\ ControlRunCount(groups, Root) = Cardinality(ControlsOf(tree))

\* a tree with a run of the root and a run below a benchmark: the root counts
\* both, the benchmark one
C22_Witness ==
  \E c, d \in RunIds : \E g \in GroupIds \ {Root} :
    /\ runs[c].group = Root
    /\ runs[d].group = g
    /\ ControlRunCount(groups, g) = 1
    /\ ControlRunCount(groups, Root) = 2
    /\ Cardinality(ControlsOf(tree)) = 2

RECURSIVE TagKeysOfRuns(_)
\* the loop of lines 130-134: the keys of the tags of the control of each run
\* (the keys of a map come in no particular order)
TagKeysOfRuns(cs) ==
  IF cs = << >> THEN << >>
  ELSE SetToSeq(DOMAIN GetTags(runs[Head(cs)].Control)) \o TagKeysOfRuns(Tail(cs))

RECURSIVE AllTagKeys(_)
RECURSIVE TagKeysOfGroups(_)
\* faulty variant of AllTagKeys: the tags of the controls are left out
AllTagKeysWithoutRuns(r) ==
  SortStrings(StringSliceDistinct(
    SetToSeq(DOMAIN groups[r].Tags) \o TagKeysOfGroups(groups[r].Groups)))

\* ResultGroup.AllTagKeys
AllTagKeys(r) ==
  SortStrings(StringSliceDistinct(
    SetToSeq(DOMAIN groups[r].Tags)
      \o TagKeysOfGroups(groups[r].Groups)
      \o TagKeysOfRuns(groups[r].ControlRuns)))

\* the loop of lines 127-129: AllTagKeys of each child group
TagKeysOfGroups(gs) ==
  IF gs = << >> THEN << >>
  ELSE AllTagKeys(Head(gs)) \o TagKeysOfGroups(Tail(gs))

\* the group and the groups below it
GroupsInSubtree(g) == {g} \cup Range(PreOrderOf(groups[g].Groups))

\* the tag keys of a group, of the groups below it and of the controls of
\* the runs of its subtree
TagKeysInSubtree(g) ==
  UNION { DOMAIN groups[h].Tags : h \in GroupsInSubtree(g) }
    \cup UNION { TagKeys(runs[c].Control) : c \in RunsInSubtree(g) }

\* C23: AllTagKeys() of a group is, sorted and without duplicates, the set of
\* the tag keys of the group, of every group below it and of the control of
\* every control run of its subtree.
C23_AllTagKeysSortedUnion ==
  \A g \in GroupIds :
    /\ StrictlySorted(AllTagKeys(g))
    /\ Range(AllTagKeys(g)) = TagKeysInSubtree(g)

\* a benchmark and a control below it have a tag key in common and each a
\* key of its own: the root, without tags, has the three keys once each
C23_Witness ==
  /\ \E g \in GroupIds \ {Root} : \E c \in RunsInSubtree(g) :
       /\ DOMAIN groups[g].Tags \cap TagKeys(runs[c].Control) # {}
       /\ DOMAIN groups[g].Tags \ TagKeys(runs[c].Control) # {}
       /\ TagKeys(runs[c].Control) \ DOMAIN groups[g].Tags # {}
  /\ AllTagKeys(Root) = <<"env", "owner", "service">>

\* ------------------------------------------------------------------------
\* The order and the independence of the walk
\* ------------------------------------------------------------------------
RECURSIVE WalkOrderOf(_)
\* the runs in depth-first pre-order: for each group of gs its direct runs
\* in declaration order, then the runs of its child groups in list order
WalkOrderOf(gs) ==
  IF gs = << >> THEN << >>
  ELSE groups[Head(gs)].ControlRuns
         \o WalkOrderOf(groups[Head(gs)].Groups)
         \o WalkOrderOf(Tail(gs))

\* the fate of run c is decided: it was dispatched, or marked error or skipped
Decided(c) == task[c].pc # "idle"

C25_WalkWaitsOnlyForSlot ==
  /\ (walker.pc = "loop" /\ walker.stack # << >>) => ENABLED Walk
  /\ walker.pc = "acquire" =>
       (ENABLED Walk <=> (sem < maxParallel \/ ctxCancelled))
  /\ walker.pc = "call" =>
       \E c \in RunIds : task[c].pc = "push" /\ task[c].sync /\ acquired[c] = 0

\* a run of a child group and a run of its parent group are executing at the
\* same time
C25_Witness ==
  /\ maxParallel >= 2
  /\ \E c, d \in RunIds :
       /\ runs[d].group # Root
       /\ groups[runs[d].group].Parent = runs[c].group
       /\ task[c].pc = "query"
       /\ task[d].pc = "query"
       /\ {c, d} \subseteq Executing

\* a run is pushing its updates
Pushing == { c \in RunIds : task[c].pc = "push" }

\* C26 as stated: when the execute of the root group has returned, no
\* dispatched run is still executing and no upward update is pending.
C26_ReturnMeansFinished ==
  walker.pc = "returned" => (Executing = {} /\ Pushing = {})

\* C26, amended: the execution is finished when the execute of the root has
\* returned and the goroutine of every dispatched run has ended, which can be
\* later than the return; then no slot and no update lock is held, every
\* slot acquired was released and the updates of every run were made at every
\* group from its own to the root.
C26_FinishedAtQuiescence ==
  Quiescent =>
    /\ sem = 0
    /\ \A g \in GroupIds : updateLock[g] = Free
    /\ \A c \in RunIds : /\ released[c] = acquired[c]
                         /\ task[c].frames = << >>
                         /\ PushedToAllAncestors(c)

\* the execution is finished after runs were dispatched at two levels, of
\* which one panicked
C26_Witness ==
  /\ Quiescent
  /\ \E c, d \in RunIds :
       /\ runs[c].group = Root
       /\ runs[d].group # Root
       /\ acquired[c] = 1
       /\ acquired[d] = 1
       /\ panicked \cap {c, d} # {}

\* ------------------------------------------------------------------------
\* Runs that are marked and not dispatched
\* ------------------------------------------------------------------------
\* the run was marked by the walk: skipped, or set to error by cancellation
Marked(c) ==
  \/ runs[c].RunStatus = "skipped"
  \/ runs[c].runError = ErrCanceled

\* C27: a control run that the walk marks, as error because the context is
\* cancelled or as skipped because of dry run, never gets a slot of the
\* limiter and is never executed: it has no Acquire, no Release, no result of
\* a query, and the step that marks it leaves the slots as they are. With dry
\* run set no slot is ever taken.
C27_MarkedRunTakesNoSlot ==
  /\ [](\A c \in RunIds :
          Marked(c) => /\ acquired[c] = 0
                       /\ released[c] = 0
                       /\ c \notin Executing
                       /\ runs[c].Duration = 0
                       /\ runs[c].DimensionKeys = << >>)
  /\ [](dryRun => (sem = 0 /\ \A c \in RunIds : acquired[c] = 0))
  /\ [][\A c \in RunIds :
          (~Marked(c) /\ Marked(c)') => (sem' = sem /\ acquired' = acquired)]_vars

\* with two slots, one is held by an executing run and the other is free;
\* a later run was set to error by cancellation and its updates are made
C27_Witness ==
  /\ maxParallel = MaxParallel
  /\ sem >= 1
  /\ sem < maxParallel
  /\ \E c, d \in RunIds :
       /\ task[c].pc = "query"
       /\ runs[d].runError = ErrCanceled
       /\ task[d].pc = "done"
       /\ acquired[d] = 0

\* C28: the check of cancellation comes before that of dry run: no run is
\* marked skipped in a step taken with the context cancelled, none once the
\* walk has seen the cancellation, and with dry run set a run handled under
\* a cancelled context is in error with the cancellation error.
C28_CancelBeforeDryRun ==
  /\ [][\A c \in RunIds :
          (runs[c].RunStatus # "skipped" /\ runs'[c].RunStatus = "skipped")
            => (~ctxCancelled /\ ~observedCancel)]_vars
  /\ [](\A c \in RunIds :
          (dryRun /\ ctxCancelled /\ Decided(c) /\ runs[c].RunStatus # "skipped")
            => /\ runs[c].RunStatus = "error"
               /\ runs[c].runError = ErrCanceled)

\* with dry run set, a run was skipped, then the context was cancelled and
\* the run after it was set to error with the cancellation error
C28_Witness ==
  /\ dryRun
  /\ ctxCancelled
  /\ Quiescent
  /\ \E c, d \in RunIds :
       /\ runs[c].group = runs[d].group
       /\ c < d
       /\ runs[c].RunStatus = "skipped"
       /\ runs[d].RunStatus = "error"
       /\ runs[d].runError = ErrCanceled

StatusIncludes(g, c) ==
  /\ updateLock[g] = Free
  /\ <<"updateSummary", g>> \in pushed[c]
  /\ runs[c].Summary # ZeroSummary
  /\ Round(runs[c].Duration, Millisecond) > 0

\* C30 as stated: a reader that takes the lock of a group never sees its
\* Summary.Status with the counts of a run and its Duration without the
\* duration of that run.
C30_StatusNeverAheadOfDuration ==
  \A g \in GroupIds : \A c \in RunIds :
    StatusIncludes(g, c) => <<"addDuration", g>> \in pushed[c]

\* C30, amended: the two updates are locked one by one, so between them a
\* reader can see the counts of a run without its duration; when a run has
\* made all its updates, every group from its own to the root has both, and
\* when all runs have, the Status and the Duration of every group are those
\* of the same runs, all of its subtree.
C30_ConsistentAfterUpdates ==
  /\ \A c \in RunIds :
       task[c].pc \in {"release", "done"} =>
         \A g \in PathToRoot(groups, runs[c].group) :
           /\ <<"updateSummary", g>> \in pushed[c]
           /\ <<"addDuration", g>> \in pushed[c]
  /\ UpdatesFinished =>
       \A g \in GroupIds :
         /\ groups[g].Summary.Status = SumOfSummaries(RunsInSubtree(g))
         /\ groups[g].Duration = SumOfRounded(RunsInSubtree(g))

\* all runs have made their updates, one of them, below a benchmark, with
\* counts and a duration that are not zero: the benchmark and the root have
\* both, and their locks are free
C30_Witness ==
  /\ UpdatesFinished
  /\ \E c \in RunIds :
       /\ runs[c].group # Root
       /\ StatusIncludes(runs[c].group, c)
       /\ StatusIncludes(Root, c)
       /\ groups[Root].Duration >= Round(runs[c].Duration, Millisecond)
       /\ task[c].pc = "release"

\* ------------------------------------------------------------------------
\* Steps of the execution: what they change and what they leave alone
\* ------------------------------------------------------------------------
\* every counter of summary a is at most that of summary b
SummaryAtMost(a, b) ==
  /\ a.Ok <= b.Ok
  /\ a.Alarm <= b.Alarm
  /\ a.Info <= b.Info
  /\ a.Skip <= b.Skip
  /\ a.Error <= b.Error

\* C31: no step of the execution decreases a counter of the Summary.Status
\* of a group, or the Duration of a group.
C31_AggregatesOnlyGrow ==
  [][\A g \in GroupIds :
       /\ SummaryAtMost(groups[g].Summary.Status, groups'[g].Summary.Status)
       /\ groups[g].Duration <= groups'[g].Duration]_vars

\* a group has got the counts of two runs, the second on top of the first,
\* and the rounded duration of a run
C31_Witness ==
  \E g \in GroupIds : \E c, d \in RunIds :
    /\ c # d
    /\ <<"updateSummary", g>> \in pushed[c]
    /\ <<"updateSummary", g>> \in pushed[d]
    /\ runs[c].Summary # ZeroSummary
    /\ runs[d].Summary # ZeroSummary
    /\ groups[g].Summary.Status = AddSummary(runs[c].Summary, runs[d].Summary)
    /\ <<"addDuration", g>> \in pushed[c]
    /\ groups[g].Duration > 0

\* the step is a call of addDuration on group g made for run c
AddDurationCall(c, g) ==
  /\ <<"addDuration", g>> \notin pushed[c]
  /\ <<"addDuration", g>> \in pushed'[c]

\* the step is the return of the outermost addDuration call made for run c
AddDurationReturns(c) ==
  /\ task[c].pc = "push"
  /\ CurrentUpdate(c) = "addDuration"
  /\ task'[c].op # task[c].op

\* C32: every call of addDuration that one addDuration(d) on the group of a
\* run leads to adds the same amount, d rounded to the millisecond, to the
\* Duration of the group it is made on and changes nothing else of any
\* group; and when the outermost call returns, the calls were made on the
\* group of the run and each of its ancestors up to the root, and no other.
C32_AddDurationSameAmountOnPath ==
  [][\A c \in RunIds :
       /\ \A g \in GroupIds :
            AddDurationCall(c, g) =>
              groups' = [groups EXCEPT
                           ![g].Duration = @ + Round(runs[c].Duration, Millisecond)]
       /\ AddDurationReturns(c) =>
            { g \in GroupIds : <<"addDuration", g>> \in pushed[c] }
              = PathToRoot(groups, runs[c].group)]_vars

\* a run of a benchmark with a duration of 0.6 ms has added its duration: the
\* benchmark and the root have 1 ms each, a group off the path has none
C32_Witness ==
  \E c \in RunIds : \E g \in GroupIds :
    /\ runs[c].group # Root
    /\ g \notin PathToRoot(groups, runs[c].group)
    /\ runs[c].Duration % Millisecond # 0
    /\ task[c].pc = "push" /\ CurrentUpdate(c) = "addDimensionKeys"
    /\ groups[runs[c].group].Duration = Round(runs[c].Duration, Millisecond)
    /\ groups[Root].Duration = Round(runs[c].Duration, Millisecond)
    /\ groups[g].Duration = 0

\* the fields of a ResultGroup that make the structure of the tree
Structure(r) ==
  [ Groups      |-> r.Groups,
    ControlRuns |-> r.ControlRuns,
    Parent      |-> r.Parent,
    GroupId     |-> r.GroupId,
    Tags        |-> r.Tags ]

\* C33: no step of the execution, of the walk or of an upward update, adds
\* or removes a group or changes the Groups, ControlRuns, Parent, GroupId or
\* Tags of a group.
C33_StructureUnchanged ==
  [][/\ DOMAIN groups' = DOMAIN groups
     /\ \A g \in GroupIds : Structure(groups'[g]) = Structure(groups[g])]_vars

\* the execution is over, a run of a tagged benchmark has pushed all four
\* updates up to the root, and the tree is the one that was built
C33_Witness ==
  /\ Quiescent
  /\ \E c \in RunIds :
       /\ runs[c].group # Root
       /\ DOMAIN groups[runs[c].group].Tags # {}
       /\ { <<op, Root>> : op \in {"updateSummary", "updateSeverityCounts",
                                   "addDuration", "addDimensionKeys"} }
            \subseteq pushed[c]
       /\ groups[Root].DimensionKeys # << >>
  /\ \A g \in GroupIds :
       Structure(groups[g]) = Structure(NewRootResultGroup(tree).groups[g])

\* ------------------------------------------------------------------------
\* The build on its own, for larger source trees
\* ------------------------------------------------------------------------
\* the largest number of items of a source tree of the build on its own
MaxBuildItems == 7

\* before NewRootResultGroup is called there is no group and no run; the
\* source tree is put together item by item
BuildInit ==
  /\ tree = [n |-> 0, kind |-> << >>, parent |-> << >>]
  /\ dryRun = FALSE
  /\ maxParallel = 1
  /\ groups = << >>
  /\ runs = << >>
  /\ updateLock = << >>
  /\ task = << >>
  /\ acquired = << >>
  /\ released = << >>
  /\ pushed = << >>
  /\ sem = 0
  /\ ctxCancelled = FALSE
  /\ walker = [pc |-> "build", stack |-> << >>]
  /\ panicked = {}
  /\ cancelledBeforeAnyRun = FALSE
  /\ inFlightAtCancel = {}
  /\ blockedAtCancel = FALSE
  /\ observedCancel = FALSE

\* the mod declares one more item: a root item or a child of a benchmark
DeclareItem ==
  /\ walker.pc = "build"
  /\ tree.n < MaxBuildItems
  /\ \E k \in {"benchmark", "control"} :
       \E p \in {0} \cup { j \in 1..tree.n : tree.kind[j] = "benchmark" } :
         tree' = [n |-> tree.n + 1,
                  kind |-> Append(tree.kind, k),
                  parent |-> Append(tree.parent, p)]
  /\ UNCHANGED << dryRun, maxParallel, groups, runs, updateLock, sem,
                  ctxCancelled, walker, task, history >>

\* the call NewRootResultGroup(ctx, executionTree, rootItems...)
Build ==
  /\ walker.pc = "build"
  /\ LET st == NewRootResultGroup(tree)
     IN /\ groups' = st.groups
        /\ runs' = st.runs
        /\ updateLock' = [g \in DOMAIN st.groups |-> Free]
        /\ task' = [c \in DOMAIN st.runs |-> IdleTask]
        /\ acquired' = [c \in DOMAIN st.runs |-> 0]
        /\ released' = [c \in DOMAIN st.runs |-> 0]
        /\ pushed' = [c \in DOMAIN st.runs |-> {}]
  /\ walker' = [pc |-> "loop", stack |-> << Frame(Root) >>]
  /\ UNCHANGED << config, sem, ctxCancelled, panicked, cancelledBeforeAnyRun,
                  inFlightAtCancel, blockedAtCancel, observedCancel >>

BuildNext ==
  \/ DeclareItem
  \/ Build

BuildSpec == BuildInit /\ [][BuildNext]_vars

\* the tree has been built
Built == Root \in GroupIds

RECURSIVE IsBelow(_, _, _)
\* item j of the source tree is in the subtree of item i, below it
IsBelow(t, j, i) ==
  /\ t.parent[j] # 0
  /\ (t.parent[j] = i \/ IsBelow(t, t.parent[j], i))

\* the controls of the source tree below item i
ControlsBelow(t, i) ==
  { j \in 1..t.n : t.kind[j] = "control" /\ IsBelow(t, j, i) }

RECURSIVE NonEmptyBenchmarks(_, _)
\* of the items cs, in their order, the benchmarks whose built group counts
\* at least one control run
NonEmptyBenchmarks(t, cs) ==
  IF cs = << >> THEN << >>
  ELSE (IF t.kind[Head(cs)] = "benchmark" /\ ControlRunCount(groups, Head(cs)) > 0
        THEN << Head(cs) >> ELSE << >>)
       \o NonEmptyBenchmarks(t, Tail(cs))

\* C34: the Groups of a group built by NewResultGroup are, in the order of
\* the children of its item, the groups of exactly those child benchmarks
\* whose ControlRunCount is greater than zero; a child benchmark with no
\* control anywhere below it, at any depth, is not among them.
C34_AttachedIffControlRuns ==
  \A p \in GroupIds \ {Root} :
    /\ groups[p].Groups = NonEmptyBenchmarks(tree, GetChildren(tree, p))
    /\ \A c \in Range(GetChildren(tree, p)) :
         tree.kind[c] = "benchmark" =>
           (c \in Range(groups[p].Groups) <=> ControlsBelow(tree, c) # {})

\* a benchmark with three child benchmarks: the first and the third have a
\* control and are attached in that order, the second has only an empty
\* benchmark below it and is not attached
C34_Witness ==
  \E p \in GroupIds \ {Root} : \E e \in Range(GetChildren(tree, p)) :
    /\ Len(groups[p].Groups) = 2
    /\ groups[p].Groups[1] < e
    /\ e < groups[p].Groups[2]
    /\ tree.kind[e] = "benchmark"
    /\ e \notin Range(groups[p].Groups)
    /\ \E f \in 1..tree.n : tree.parent[f] = e

\* ------------------------------------------------------------------------
\* Groups while updates are in flight
\* ------------------------------------------------------------------------
\* the direct runs of group g whose updateSummary call on g has been made
DirectRunsPushed(g) ==
  { c \in Range(groups[g].ControlRuns) : <<"updateSummary", g>> \in pushed[c] }

\* C35: in every reachable state, also while updates are in flight, every
\* counter of the Summary.Status of a group is at most the sum of that
\* counter over the summaries its direct runs have pushed to it and over the
\* Summary.Status of its child groups.
C35_NeverAheadOfSubtree ==
  \A g \in GroupIds :
    SummaryAtMost(groups[g].Summary.Status,
                  AddSummary(SumOfSummaries(DirectRunsPushed(g)),
                             SumOfGroups(groups[g].Groups)))

\* an updateSummary of a run of a benchmark is in flight: the benchmark has
\* its counts, the root, which has the counts of another run, not yet
C35_Witness ==
  \E c, d \in RunIds :
    /\ c # d
    /\ runs[c].group # Root
    /\ runs[c].Summary # ZeroSummary
    /\ task[c].pc = "push" /\ CurrentUpdate(c) = "updateSummary"
    /\ <<"updateSummary", runs[c].group>> \in pushed[c]
    /\ <<"updateSummary", Root>> \notin pushed[c]
    /\ <<"updateSummary", Root>> \in pushed[d]
    /\ runs[d].Summary # ZeroSummary
    /\ groups[Root].Summary.Status = runs[d].Summary

\* the step is a call of addDimensionKeys on group g made for run c
AddDimensionKeysCall(c, g) ==
  /\ task[c].pc = "push"
  /\ CurrentUpdate(c) = "addDimensionKeys"
  /\ task'[c].frames = Append(task[c].frames, g)

\* the step is the return of the outermost addDimensionKeys call made for c
AddDimensionKeysReturns(c) ==
  /\ task[c].pc = "push"
  /\ CurrentUpdate(c) = "addDimensionKeys"
  /\ task'[c].pc # "push"

\* the DimensionKeys of every group whose updateLock is free are in
\* ascending order without duplicates
FreeGroupsSorted ==
  \A g \in GroupIds :
    updateLock[g] = Free => StrictlySorted(groups[g].DimensionKeys)

\* C36: whenever the updateLock of a group is free its DimensionKeys are
\* sorted ascending without duplicates, however the addDimensionKeys calls
\* interleave; and one addDimensionKeys of a run appends the keys of the run
\* to a group by a call made on it for the first time, and when it returns
\* the calls were made on the group of the run and each of its ancestors.
C36_KeysSortedWhenUnlocked ==
  /\ []FreeGroupsSorted
  /\ [][\A c \in RunIds :
          /\ \A g \in GroupIds :
               AddDimensionKeysCall(c, g) =>
                 /\ <<"addDimensionKeys", g>> \notin pushed[c]
                 /\ groups'[g].DimensionKeys
                      = groups[g].DimensionKeys \o runs[c].DimensionKeys
          /\ AddDimensionKeysReturns(c) =>
               { g \in GroupIds : <<"addDimensionKeys", g>> \in pushed[c] }
                 = PathToRoot(groups, runs[c].group)]_vars

\* a run has appended a key to its benchmark that the benchmark had already
\* and holds its lock: the list of the benchmark has the key twice, the root,
\* whose lock is free, has two keys in order
C36_Witness ==
  \E c \in RunIds :
    /\ runs[c].group # Root
    /\ task[c].pc = "push" /\ CurrentUpdate(c) = "addDimensionKeys"
    /\ task[c].frames = << runs[c].group >>
    /\ updateLock[runs[c].group] = c
    /\ ~StrictlySorted(groups[runs[c].group].DimensionKeys)
    /\ updateLock[Root] = Free
    /\ Len(groups[Root].DimensionKeys) = 2
    /\ StrictlySorted(groups[Root].DimensionKeys)

\* C37: in every built tree the root has no Parent and no GroupItem, every
\* group in the Groups of a group has that group as its Parent, no group is
\* in the Groups of two groups or twice in those of one, and a root item
\* that is a control has a ControlRun in the ControlRuns of the root and no
\* group.
C37_ParentLinksAgree ==
  Built =>
    /\ groups[Root].Parent = NoGroup
    /\ groups[Root].GroupItem = NoItem
    /\ \A p \in GroupIds : \A k \in 1..Len(groups[p].Groups) :
         /\ groups[p].Groups[k] \in GroupIds
         /\ groups[groups[p].Groups[k]].Parent = p
    /\ \A p, q \in GroupIds :
         \A i \in 1..Len(groups[p].Groups) : \A j \in 1..Len(groups[q].Groups) :
           groups[p].Groups[i] = groups[q].Groups[j] => p = q /\ i = j
    /\ \A c \in Range(GetChildren(tree, 0)) :
         tree.kind[c] = "control" =>
           /\ c \notin GroupIds
           /\ c \in RunIds
           /\ runs[c].group = Root
           /\ Cardinality({ k \in 1..Len(groups[Root].ControlRuns) :
                              groups[Root].ControlRuns[k] = c }) = 1

\* a built tree with a control and a benchmark at the top and, in the
\* benchmark, a benchmark with a control: the root has one run and one group,
\* which has the inner group
C37_Witness ==
  /\ Built
  /\ Len(groups[Root].ControlRuns) = 1
  /\ Len(groups[Root].Groups) = 1
  /\ \E g, h \in GroupIds \ {Root} :
       /\ groups[Root].Groups = << g >>
       /\ groups[g].Groups = << h >>
       /\ groups[h].Parent = g
       /\ Len(groups[h].ControlRuns) = 1

====
